---- MODULE Spec2Model ----
(***************************************************************************)
(* A model of src/main.cpp: the movie recommender that loads a catalog     *)
(* from PostgreSQL, fetches every poster concurrently (std::async),        *)
(* normalises the covers, and ranks the catalog against the user's poster  *)
(* by cosine distance of mean colours.                                     *)
(*                                                                         *)
(* Abstractions.  A cv::Mat is a record of its size and its colour: the    *)
(* images served by the modelled web are uniformly coloured, so that       *)
(* cv::resize keeps the colour and cv::mean is the colour.  Movie.title    *)
(* and Movie.genre are strings copied from the row to the output and play  *)
(* no part in any decision; they are left out of the Movie record.         *)
(* Distances are kept exact (as the squared cosine, a rational), so float  *)
(* rounding is not modelled; NaN is modelled.                              *)
(***************************************************************************)
EXTENDS Integers, Sequences, FiniteSets, TLC

VARIABLES
    pc,               \* position of the main thread
    result,           \* pqxx::result of the SELECT (line 75)
    rowIdx,           \* position of the range-for over result (line 78)
    movies,           \* std::vector<Movie> movies (line 71, then main's, line 122)
    futures,          \* std::vector<std::future<cv::Mat>> futures (line 77)
    tasks,            \* the threads std::async started, with their shared states
    order,            \* history: a fetch completed before one launched earlier
    i,                \* index of the collection loop (line 89)
    exc,              \* an exception is in flight inside the try block
    logged,           \* the catch block wrote to std::cerr (line 93)
    loadReturned,     \* loadMoviesFromDatabase has returned to main
    userPosterURL,    \* line 128
    userCover,        \* line 130
    recommendations,  \* line 137
    recommendCalled,  \* recommendMovies was entered
    fatalReported,    \* line 132 wrote the error message
    exitCode,         \* process status; NotExited while running
    curlUp            \* environment: curl_easy_init() yields a handle (line 32)

vars == <<pc, result, rowIdx, movies, futures, tasks, order, i, exc, logged,
          loadReturned, userPosterURL, userCover, recommendations,
          recommendCalled, fatalReported, exitCode, curlUp>>

----------------------------------------------------------------------------
(* Bounds and program constants *)

MaxRows == 3

CanonicalCols == 67

CanonicalRows == 98

DefaultTopN == 5

NotExited == -1

ExitSuccess == 0

ExitFatal == 1

ExitAbort == 134

----------------------------------------------------------------------------
(* cv::Mat *)

Mat(c, r, color) == [cols |-> c, rows |-> r, bgr |-> color]

\* cv::Mat(): the default-constructed, empty matrix
EmptyMat == Mat(0, 0, <<0, 0, 0>>)

\* cv::Mat::empty()
empty(m) == m.cols * m.rows = 0

Red == <<0, 0, 2>>
Blue == <<2, 0, 0>>
Purple == <<1, 0, 1>>

----------------------------------------------------------------------------
(* The web: what each poster URL's server does.  transport is what         *)
(* libcurl meets (ok: a complete HTTP response arrived; fail: DNS or       *)
(* connection error; hang: the server accepts and never answers), status   *)
(* is the HTTP status of the response, body the bytes of the response.     *)

URLs == {"red.png", "blue.png", "down", "hang", "err404", "empty", "garbage"}

Image(m) == [kind |-> "image", mat |-> m]
Garbage == [kind |-> "garbage", mat |-> EmptyMat]
NoBytes == [kind |-> "empty", mat |-> EmptyMat]

Serve(url) ==
    CASE url = "red.png"  -> [transport |-> "ok", status |-> 200, body |-> Image(Mat(200, 300, Red))]
      [] url = "blue.png" -> [transport |-> "ok", status |-> 200, body |-> Image(Mat(67, 98, Blue))]
      [] url = "down"     -> [transport |-> "fail", status |-> 0, body |-> NoBytes]
      [] url = "hang"     -> [transport |-> "hang", status |-> 0, body |-> NoBytes]
      [] url = "err404"   -> [transport |-> "ok", status |-> 404, body |-> Image(Mat(120, 120, Purple))]
      [] url = "empty"    -> [transport |-> "ok", status |-> 200, body |-> NoBytes]
      [] url = "garbage"  -> [transport |-> "ok", status |-> 200, body |-> Garbage]

----------------------------------------------------------------------------
(* loadImageFromURL, lines 27-46 *)

\* the options the code sets on the easy handle (lines 34-36)
curlOptions == {"URL", "WRITEFUNCTION", "WRITEDATA"}

\* curl_easy_perform returns at all: the server answers or fails, or a
\* timeout was set on the handle (CURLOPT_TIMEOUT defaults to 0: never)
PerformReturns(url) ==
    Serve(url).transport # "hang" \/ "TIMEOUT" \in curlOptions

\* res == CURLE_OK (line 40): the transfer completed; an HTTP status >= 400
\* is an error to libcurl only under CURLOPT_FAILONERROR
curlOK(url) ==
    /\ Serve(url).transport = "ok"
    /\ ~("FAILONERROR" \in curlOptions /\ Serve(url).status >= 400)

Returned(m) == [threw |-> FALSE, mat |-> m]
Threw == [threw |-> TRUE, mat |-> EmptyMat]

\* cv::imdecode(data, cv::IMREAD_COLOR), line 42: the decoded image, an empty
\* matrix for bytes that are no image, and a cv::Exception for an empty
\* buffer (imdecode_ asserts !buf.empty())
imdecode(body) ==
    CASE body.kind = "image"   -> Returned(body.mat)
      [] body.kind = "garbage" -> Returned(EmptyMat)
      [] body.kind = "empty"   -> Threw

\* lines 27-46; curl is whether curl_easy_init() gave a handle (line 32)
loadImageFromURL(url, curl) ==
    IF curl /\ curlOK(url) THEN imdecode(Serve(url).body) ELSE Returned(EmptyMat)

\* preprocessImage, lines 49-56
preprocessImage(image) ==
    IF empty(image) THEN EmptyMat
    ELSE Mat(CanonicalCols, CanonicalRows, image.bgr)

----------------------------------------------------------------------------
(* Features and distance, lines 59-67 *)

\* cv::mean: the per-channel mean, all zero for an empty matrix
mean(image) == IF empty(image) THEN <<0, 0, 0>> ELSE image.bgr

\* calculateMeanRGB: channels 2, 1, 0 of the BGR mean
calculateMeanRGB(image) == <<mean(image)[3], mean(image)[2], mean(image)[1]>>

Dot(a, b) == a[1] * b[1] + a[2] * b[2] + a[3] * b[3]

\* A float distance 1 - sqrt(num / den) (components are non-negative, so
\* the cosine is), or NaN when the product of the norms is zero (0/0).
cosineDistance(a, b) ==
    LET n2 == Dot(a, a) * Dot(b, b)
    IN  [nan |-> n2 = 0, num |-> Dot(a, b) * Dot(a, b), den |-> n2]

\* operator< on float: false whenever an operand is NaN
FloatLess(x, y) == ~x.nan /\ ~y.nan /\ x.num * y.den > y.num * x.den

\* operator== on float
FloatEq(x, y) == ~x.nan /\ ~y.nan /\ x.num * y.den = y.num * x.den

\* operator<= on float
FloatLeq(x, y) == FloatLess(x, y) \/ FloatEq(x, y)

----------------------------------------------------------------------------
(* recommendMovies, lines 99-118 *)

Min(a, b) == IF a < b THEN a ELSE b

Perms(n) == {p \in [1..n -> 1..n] : \A a, b \in 1..n : a # b => p[a] # p[b]}

\* the comparator of line 109-111 on std::pair<float, Movie>
comp(a, b) == FloatLess(a.first, b.first)

\* comp is a strict weak ordering on the elements of s: what std::sort
\* requires of its comparator (irreflexive, transitive, and with a
\* transitive incomparability)
StrictWeakOrdering(s) ==
    LET E == {s[k] : k \in DOMAIN s}
        inc(a, b) == ~comp(a, b) /\ ~comp(b, a)
    IN  /\ \A a \in E : ~comp(a, a)
        /\ \A a, b, c \in E : comp(a, b) /\ comp(b, c) => comp(a, c)
        /\ \A a, b, c \in E : inc(a, b) /\ inc(b, c) => inc(a, c)

\* Whether std::sort may leave s in the order q: with a strict weak
\* ordering any permutation in which no element precedes one that compares
\* less than it (the order of equivalent elements is unspecified: std::sort
\* is not std::stable_sort); with a comparator that is none the behaviour
\* is undefined and any permutation may come out.
SortMayYield(s, q) ==
    StrictWeakOrdering(s) =>
        \A a, b \in DOMAIN s : a < b => ~comp(s[q[b]], s[q[a]])

\* std::sort(distances.begin(), distances.end(), comp): the possible results
std_sort(s) ==
    {[k \in DOMAIN s |-> s[q[k]]] : q \in {p \in Perms(Len(s)) : SortMayYield(s, p)}}

\* lines 100-107: the (distance, movie) pairs in catalog order
Distances(inputMovie, ms) ==
    [k \in DOMAIN ms |->
        [first  |-> cosineDistance(calculateMeanRGB(inputMovie.cover),
                                   calculateMeanRGB(ms[k].cover)),
         second |-> ms[k]]]

\* the possible results of recommendMovies(inputMovie, ms, topN)
recommendMovies(inputMovie, ms, topN) ==
    {[k \in 1..Min(topN, Len(d)) |-> d[k].second] :
        d \in std_sort(Distances(inputMovie, ms))}

----------------------------------------------------------------------------
(* The store: the rows the SELECT of line 75 may return.  A row is its     *)
(* position (the id the store assigned), its poster_link, and whether one  *)
(* of its fields is NULL, which makes row[...].as<T>() throw               *)
(* (lines 80-83).                                                          *)

NullRow == "NULL"

Row(k, kind) ==
    [id |-> k, poster_link |-> kind, null |-> (kind = NullRow)]

Catalogs ==
    UNION {{[k \in 1..n |-> Row(k, f[k])] : f \in [1..n -> URLs \cup {NullRow}]} :
              n \in 0..MaxRows}

\* Movie (lines 13-19) as built by lines 79-83; cover is default-constructed
Movie(row) == [id |-> row.id, poster_url |-> row.poster_link, cover |-> EmptyMat]

\* std::async(std::launch::async, loadImageFromURL, url), line 85: a new
\* thread and its shared state
Task(url) == [url |-> url, state |-> "running", value |-> Returned(EmptyMat), gets |-> 0]

\* a collection loop that pairs the movies with the futures back to front
FutureIndexReversed(k) == Len(futures) + 1 - k

\* which future the collection loop reads for movies[k] (line 90)
FutureIndex(k) == k

\* a future whose destructor never waits (as one from a detached thread)
FutureDtorNeverBlocks(t) == FALSE

\* ~future() of a future obtained from std::async blocks until the task
\* has finished
FutureDtorBlocks(t) == t.state = "running"

\* a main without the test of line 131
UserCoverNeverRejected(cover) == FALSE

\* the test of line 131
UserCoverRejected(cover) == empty(cover)

----------------------------------------------------------------------------
Init ==
    /\ pc = "connect"
    /\ result = <<>>
    /\ rowIdx = 1
    /\ movies = <<>>
    /\ futures = <<>>
    /\ tasks = <<>>
    /\ order = FALSE
    /\ i = 0
    /\ exc = FALSE
    /\ logged = FALSE
    /\ loadReturned = FALSE
    /\ userPosterURL = ""
    /\ userCover = EmptyMat
    /\ recommendations = <<>>
    /\ recommendCalled = FALSE
    /\ fatalReported = FALSE
    /\ exitCode = NotExited
    /\ curlUp \in BOOLEAN

mainVars == <<userPosterURL, userCover, recommendations, recommendCalled,
              fatalReported, exitCode, curlUp>>

\* line 73: pqxx::connection conn(connectionString), which throws
\* when the server cannot be reached
Connect ==
    /\ pc = "connect"
    /\ \E ok \in BOOLEAN :
          IF ok THEN pc' = "exec" /\ exc' = FALSE
                ELSE pc' = "unwind" /\ exc' = TRUE
    /\ UNCHANGED <<result, rowIdx, movies, futures, tasks, order, i, logged,
                   loadReturned, mainVars>>

\* lines 74-75: txn.exec(...), which throws on a query error
Exec ==
    /\ pc = "exec"
    /\ \/ \E r \in Catalogs :
             /\ result' = r
             /\ pc' = "rows"
             /\ exc' = FALSE
       \/ /\ pc' = "unwind"
          /\ exc' = TRUE
          /\ UNCHANGED result
    /\ UNCHANGED <<rowIdx, movies, futures, tasks, order, i, logged,
                   loadReturned, mainVars>>

\* lines 78-87, one iteration: read the row, start its fetch, keep the movie
ReadRow ==
    /\ pc = "rows"
    /\ rowIdx <= Len(result)
    /\ LET row == result[rowIdx] IN
          IF row.null
          THEN /\ pc' = "unwind"
               /\ exc' = TRUE
               /\ UNCHANGED <<rowIdx, movies, futures, tasks>>
          ELSE /\ tasks' = Append(tasks, Task(row.poster_link))
               /\ futures' = Append(futures, Len(tasks) + 1)
               /\ movies' = Append(movies, Movie(row))
               /\ rowIdx' = rowIdx + 1
               /\ UNCHANGED <<pc, exc>>
    /\ UNCHANGED <<result, order, i, logged, loadReturned, mainVars>>

\* the range-for ends; line 89 sets i = 0 (here: the first index, 1)
RowsDone ==
    /\ pc = "rows"
    /\ rowIdx > Len(result)
    /\ pc' = "collect"
    /\ i' = 1
    /\ UNCHANGED <<result, rowIdx, movies, futures, tasks, order, exc, logged,
                   loadReturned, mainVars>>

\* a fetch thread runs loadImageFromURL to its end (lines 27-46) and makes
\* its shared state ready, with the bitmap or with the exception
FetchComplete(t) ==
    /\ tasks[t].state = "running"
    /\ PerformReturns(tasks[t].url)
    /\ tasks' = [tasks EXCEPT ![t].state = "ready",
                              ![t].value = loadImageFromURL(tasks[t].url, curlUp)]
    /\ order' = (order \/ \E u \in 1..(t - 1) : tasks[u].state = "running")
    /\ UNCHANGED <<pc, result, rowIdx, movies, futures, i, exc, logged,
                   loadReturned, mainVars>>

\* line 90: futures[i].get() blocks until the task is ready, then rethrows
\* its exception or hands over its bitmap
Collect ==
    /\ pc = "collect"
    /\ i <= Len(movies)
    /\ LET t == futures[FutureIndex(i)] IN
          /\ tasks[t].state = "ready"
          /\ tasks' = [tasks EXCEPT ![t].gets = @ + 1]
          /\ IF tasks[t].value.threw
             THEN /\ pc' = "unwind"
                  /\ exc' = TRUE
                  /\ UNCHANGED <<movies, i>>
             ELSE /\ movies' = [movies EXCEPT ![i].cover =
                                    preprocessImage(tasks[t].value.mat)]
                  /\ i' = i + 1
                  /\ UNCHANGED <<pc, exc>>
    /\ UNCHANGED <<result, rowIdx, futures, order, logged, loadReturned, mainVars>>

\* the loop of line 89 ends and the try block is left normally
CollectDone ==
    /\ pc = "collect"
    /\ i > Len(movies)
    /\ pc' = "unwind"
    /\ UNCHANGED <<result, rowIdx, movies, futures, tasks, order, i, exc, logged,
                   loadReturned, mainVars>>

\* leaving the try block (normally or by an exception) destroys `futures`
\* (line 77): one element's destructor
DestroyFuture ==
    /\ pc = "unwind"
    /\ futures # <<>>
    /\ ~FutureDtorBlocks(tasks[Head(futures)])
    /\ futures' = Tail(futures)
    /\ UNCHANGED <<pc, result, rowIdx, movies, tasks, order, i, exc, logged,
                   loadReturned, mainVars>>

\* lines 92-94: the handler writes the message to std::cerr
Catch ==
    /\ pc = "unwind"
    /\ futures = <<>>
    /\ exc
    /\ logged' = TRUE
    /\ exc' = FALSE
    /\ pc' = "return"
    /\ UNCHANGED <<result, rowIdx, movies, futures, tasks, order, i,
                   loadReturned, mainVars>>

\* the try block ended without an exception
TryEnd ==
    /\ pc = "unwind"
    /\ futures = <<>>
    /\ ~exc
    /\ pc' = "return"
    /\ UNCHANGED <<result, rowIdx, movies, futures, tasks, order, i, exc, logged,
                   loadReturned, mainVars>>

\* line 95, and main's line 122
LoadReturn ==
    /\ pc = "return"
    /\ loadReturned' = TRUE
    /\ pc' = "prompt"
    /\ UNCHANGED <<result, rowIdx, movies, futures, tasks, order, i, exc, logged,
                   mainVars>>

loadVars == <<result, rowIdx, movies, futures, tasks, order, i, exc, logged,
              loadReturned>>

\* lines 124-128: the user's input
ReadInput ==
    /\ pc = "prompt"
    /\ \E url \in URLs : userPosterURL' = url
    /\ pc' = "fetch_user"
    /\ UNCHANGED <<loadVars, userCover, recommendations, recommendCalled,
                   fatalReported, exitCode, curlUp>>

\* line 130: the user's poster, fetched on the main thread; an exception
\* of loadImageFromURL is caught nowhere: std::terminate
FetchUser ==
    /\ pc = "fetch_user"
    /\ PerformReturns(userPosterURL)
    /\ LET r == loadImageFromURL(userPosterURL, curlUp) IN
          IF r.threw
          THEN /\ pc' = "aborted"
               /\ exitCode' = ExitAbort
               /\ UNCHANGED userCover
          ELSE /\ userCover' = preprocessImage(r.mat)
               /\ pc' = "check"
               /\ UNCHANGED exitCode
    /\ UNCHANGED <<loadVars, userPosterURL, recommendations, recommendCalled,
                   fatalReported, curlUp>>

\* lines 131-134
RejectUser ==
    /\ pc = "check"
    /\ UserCoverRejected(userCover)
    /\ fatalReported' = TRUE
    /\ exitCode' = ExitFatal
    /\ pc' = "exit"
    /\ UNCHANGED <<loadVars, userPosterURL, userCover, recommendations,
                   recommendCalled, curlUp>>

\* lines 136-144
Recommend ==
    /\ pc = "check"
    /\ ~UserCoverRejected(userCover)
    /\ recommendCalled' = TRUE
    /\ \E rec \in recommendMovies([id |-> 0, poster_url |-> userPosterURL,
                                    cover |-> userCover], movies, DefaultTopN) :
          recommendations' = rec
    /\ exitCode' = ExitSuccess
    /\ pc' = "exit"
    /\ UNCHANGED <<loadVars, userPosterURL, userCover, fatalReported, curlUp>>

Next ==
    \/ Connect
    \/ Exec
    \/ ReadRow
    \/ RowsDone
    \/ \E t \in 1..MaxRows : t \in DOMAIN tasks /\ FetchComplete(t)
    \/ Collect
    \/ CollectDone
    \/ DestroyFuture
    \/ Catch
    \/ TryEnd
    \/ LoadReturn
    \/ ReadInput
    \/ FetchUser
    \/ RejectUser
    \/ Recommend

Spec == Init /\ [][Next]_vars

\* every thread that can take a step eventually takes one
FairSpec == Spec /\ WF_vars(Next)

----------------------------------------------------------------------------
(* Properties *)

\* the distance recommendMovies computes for a catalog entry (lines 101-105)
QueryDistance(m) ==
    cosineDistance(calculateMeanRGB(userCover), calculateMeanRGB(m.cover))

\* a fetch the design counts as failed: transport failure, a non-2xx
\* status, or a body that is no image
FetchFailure(url) ==
    \/ Serve(url).transport # "ok"
    \/ Serve(url).status \notin 200..299
    \/ Serve(url).body.kind # "image"

\* C1: whatever the order in which the fetches complete, the movies are the
\* rows in row order, every cover attached so far is the normalised result
\* of the fetch of that row's own poster URL, and after a normal return
\* every row has its movie and its cover.
C1_PositionalMapping ==
    /\ Len(movies) <= Len(result)
    /\ \A k \in DOMAIN movies :
          /\ movies[k].id = result[k].id
          /\ movies[k].poster_url = result[k].poster_link
          /\ tasks[k].url = result[k].poster_link
          /\ IF k < i
             THEN /\ tasks[k].state = "ready"
                  /\ ~tasks[k].value.threw
                  /\ movies[k].cover = preprocessImage(tasks[k].value.mat)
             ELSE movies[k].cover = EmptyMat
    /\ (loadReturned /\ ~logged) =>
          /\ Len(movies) = Len(result)
          /\ \A k \in DOMAIN movies :
                movies[k].cover =
                    preprocessImage(loadImageFromURL(result[k].poster_link, curlUp).mat)

\* a normal return of two movies with different covers whose fetches
\* completed out of launch order
C1_Witness ==
    /\ loadReturned /\ ~logged /\ order
    /\ Len(movies) = 2
    /\ ~empty(movies[1].cover) /\ ~empty(movies[2].cover)
    /\ movies[1].cover # movies[2].cover

\* C2: when an exception was caught during loading, the catalog returned is
\* empty (and the failure was written to the console).
C2_EmptyOnStoreFailure ==
    (loadReturned /\ logged) => movies = <<>>

\* C3: recommendMovies returns at most min(topN, |catalog|) entries, their
\* distances to the query are non-decreasing in result order, and an empty
\* catalog gives the empty list (stated for the catalogs that were loaded
\* without an exception).
C3_BoundedNonDecreasing ==
    (recommendCalled /\ ~logged) =>
        /\ Len(recommendations) <= Min(DefaultTopN, Len(movies))
        /\ \A k \in 1..(Len(recommendations) - 1) :
              FloatLeq(QueryDistance(recommendations[k]),
                       QueryDistance(recommendations[k + 1]))
        /\ (movies = <<>> => recommendations = <<>>)

\* C4: two catalog entries at equal distance from the query appear in the
\* result in their catalog order (ids are catalog positions; stated for the
\* catalogs that were loaded without an exception).
C4_StableTies ==
    (recommendCalled /\ ~logged) =>
        \A a, b \in DOMAIN recommendations :
            (a < b /\ FloatEq(QueryDistance(recommendations[a]),
                              QueryDistance(recommendations[b])))
                => recommendations[a].id < recommendations[b].id

\* C5: an entry whose cover is empty never precedes an entry with a
\* non-empty cover in the result of recommendMovies (stated for the
\* catalogs that were loaded without an exception).
C5_DegenerateNeverFirst ==
    (recommendCalled /\ ~logged) =>
        \A a, b \in DOMAIN recommendations :
            a < b => ~(empty(recommendations[a].cover) /\
                       ~empty(recommendations[b].cover))

\* C6: loadImageFromURL never raises, and its result is the empty bitmap
\* whenever the transport failed, the status was not 2xx or the body was
\* no image.
C6_FailureIsEmpty ==
    \A k \in DOMAIN tasks :
        tasks[k].state = "ready" =>
            /\ ~tasks[k].value.threw
            /\ FetchFailure(tasks[k].url) => empty(tasks[k].value.mat)

\* C7: with a store that delivered its rows, the catalog returned has all
\* the rows, an empty cover for each row whose fetch or decode failed, and
\* a cover of the canonical 67x98 resolution for every other row.
C7_FailuresIsolated ==
    (loadReturned /\ curlUp /\ \A k \in DOMAIN result : ~result[k].null) =>
        /\ Len(movies) = Len(result)
        /\ \A k \in DOMAIN movies :
              IF FetchFailure(movies[k].poster_url)
              THEN empty(movies[k].cover)
              ELSE /\ movies[k].cover.cols = CanonicalCols
                   /\ movies[k].cover.rows = CanonicalRows

\* C8: recommendMovies is only ever called with a non-empty query cover;
\* with an empty query cover main writes the error and exits with status 1
\* without calling it; and a process ended by an uncaught exception of the
\* user's fetch has not called it either.
C8_FatalBeforeRecommend ==
    /\ recommendCalled => ~empty(userCover)
    /\ (pc = "exit" /\ empty(userCover)) =>
          /\ fatalReported
          /\ exitCode = ExitFatal
          /\ ~recommendCalled
    /\ pc = "aborted" => (exitCode # ExitSuccess /\ ~recommendCalled)
    /\ fatalReported => empty(userCover)

\* the user's poster could not be fetched, against a loaded catalog
C8_Witness ==
    /\ pc = "exit" /\ userPosterURL = "down" /\ empty(userCover)
    /\ movies # <<>> /\ exitCode = ExitFatal

\* C9: every fetch that was started eventually completes.
C9_FetchesComplete ==
    \A t \in 1..MaxRows :
        (t \in DOMAIN tasks /\ tasks[t].state = "running")
            ~> (t \in DOMAIN tasks /\ tasks[t].state = "ready")

\* C10: once loadMoviesFromDatabase is at its return, no fetch task is
\* still running; the collection loop starts with one future per movie;
\* and no future is read more than once.
C10_NoWorkerOutlivesCall ==
    /\ (pc = "return" \/ loadReturned) =>
          /\ futures = <<>>
          /\ \A k \in DOMAIN tasks : tasks[k].state = "ready"
    /\ pc = "collect" =>
          /\ Len(futures) = Len(movies)
          /\ Len(tasks) = Len(movies)
          /\ \A k \in DOMAIN futures : futures[k] = k
    /\ \A k \in DOMAIN tasks : tasks[k].gets <= 1

\* a return through the handler after fetches were started, one of which
\* was never read
C10_Witness ==
    /\ loadReturned /\ logged
    /\ Len(tasks) = 2
    /\ tasks[1].gets = 1 /\ tasks[2].gets = 0

====
